---- MODULE Spec2Model ----
(***************************************************************************)
(* The record harvester of instructor/day_two.py: the notebook cells that  *)
(* extract the locators from the index page (In[15], In[16], In[25]), crawl *)
(* the first pages (In[38]) and write the batch as CSV (In[39]..In[42]).    *)
(*                                                                         *)
(* The file is a notebook export: each cell is one operation on the        *)
(* kernel's global variables.  An exception ends the cell that raised it   *)
(* (the variables keep what was assigned before) and the run with it.      *)
(*                                                                         *)
(* Text is a tuple of character codes, so that sorted() compares keys the  *)
(* way Python compares str.                                                *)
(***************************************************************************)
EXTENDS Integers, Sequences, FiniteSets, TLC

VARIABLES
    cell,             \* the cell that runs next
    err,              \* the exception the last cell ended with, "" for none
    page,             \* In[15]: the parsed index document
    company_section,  \* In[16]: the ResultSet of div#mw-pages
    link_list,        \* In[25]
    iter,             \* In[38]: each_link is link_list[0:3][iter - 1], 0 before the loop
    company_page,     \* In[38]: the response of requests.get
    list_of_dicts,    \* In[38]
    key_list,         \* In[39]
    key_set,          \* In[40]
    final_key_list,   \* In[41]
    row_n,            \* In[42]: the rows of list_of_dicts the write loop has taken
    outfile,          \* In[42]: the rows written to the csv file, the header first
    search_r,         \* retweet(): r, the response of the search
    statuses,         \* retweet(): statuses
    update_n,         \* retweet(): the elements of statuses the loop has taken
    log               \* history: the sleeps, requests and appends of the running
                      \* loop, in the order they happened

vars == <<cell, err, page, company_section, link_list, iter, company_page,
          list_of_dicts, key_list, key_set, final_key_list, row_n, outfile,
          search_r, statuses, update_n, log>>

----------------------------------------------------------------------------
(* Bounds of the inputs. *)

\* tags of the index document that the extraction can see
MaxNodes == 5
\* tr elements of one info table
MaxRows == 2

\* the statuses of one search result, at most
MaxStatuses == 3

----------------------------------------------------------------------------
(* Text. *)

s_Company_name == <<67, 111, 109, 112, 97, 110, 121, 95, 110, 97, 109, 101>>
s_Co == <<67, 111>>
s_HQ == <<72, 81>>
s_A == <<65>>
s_B == <<66>>
s_C == <<67>>
s_D == <<68>>
s_E == <<69>>
s_F == <<70>>
s_X == <<88>>
s_Y == <<89>>
s_empty == <<>>

\* Python's str < str: the first differing code decides, a proper prefix is less
RECURSIVE StrLess(_, _)
StrLess(a, b) ==
    IF b = <<>> THEN FALSE
    ELSE IF a = <<>> THEN TRUE
    ELSE IF Head(a) # Head(b) THEN Head(a) < Head(b)
    ELSE StrLess(Tail(a), Tail(b))

----------------------------------------------------------------------------
(* The index document and BeautifulSoup's queries on it.                    *)
(* A document is the sequence of its opening tags in document order:        *)
(*   div_mw_pages  opens a div with id mw-pages (and ends the one before),  *)
(*   div_group     opens a div of class mw-category-group inside it,        *)
(*   li            is a list item, a is its first <a> descendant or None.   *)
(* A li belongs to the last group opened in its container, to the container *)
(* alone when no group is open, and to neither before the first container.  *)

None == [tag |-> "None"]

Anchor(attrs) == [tag |-> "a", attrs |-> attrs]

HasAttr(a, k) == \E p \in a.attrs : p[1] = k

Attr(a, k) == (CHOOSE p \in a.attrs : p[1] = k)[2]

AnchorA == Anchor({<<"href", s_A>>, <<"title", s_A>>})
AnchorB == Anchor({<<"href", s_B>>, <<"title", s_B>>})
AnchorBare == Anchor({})

IndexAnchors == {None, AnchorBare, AnchorA, AnchorB}

Tags == {[tag |-> "div_mw_pages"], [tag |-> "div_group"]}
           \cup {[tag |-> "li", a |-> a] : a \in IndexAnchors}

Docs == UNION {[1..n -> Tags] : n \in 0..MaxNodes}

NoDoc == <<[tag |-> "nothing"]>>

\* the tags of doc from position p up to the next div_mw_pages
RECURSIVE UpToNextSection(_, _)
UpToNextSection(doc, p) ==
    IF p > Len(doc) \/ doc[p].tag = "div_mw_pages" THEN <<>>
    ELSE <<doc[p]>> \o UpToNextSection(doc, p + 1)

\* page.find_all("div", {"id": "mw-pages"}): every matching div, as its content
RECURSIVE FindAllMwPagesFrom(_, _)
FindAllMwPagesFrom(doc, p) ==
    IF p > Len(doc) THEN <<>>
    ELSE IF doc[p].tag = "div_mw_pages"
         THEN <<UpToNextSection(doc, p + 1)>> \o FindAllMwPagesFrom(doc, p + 1)
         ELSE FindAllMwPagesFrom(doc, p + 1)

FindAllMwPages(doc) == FindAllMwPagesFrom(doc, 1)

IsLi(t) == t.tag = "li"

\* each_section.find_all("li"): every li below the section, in document order
FindAllLi(section) == SelectSeq(section, IsLi)

\* each_company.a: the first <a> below the li, None when there is none
DotA(li) == li.a

----------------------------------------------------------------------------
(* In[25]: the loop that builds link_list. *)

\* a slip of the inner loop: a company_list without entries leaves a placeholder
RECURSIVE AppendAnchorsOrNone(_, _)
AppendAnchorsOrNone(list, company_list) ==
    IF company_list = <<>> THEN Append(list, None)
    ELSE IF Len(company_list) = 1 THEN Append(list, DotA(Head(company_list)))
    ELSE AppendAnchorsOrNone(Append(list, DotA(Head(company_list))), Tail(company_list))

\* the inner loop: one append per li of company_list
RECURSIVE AppendAnchors(_, _)
AppendAnchors(list, company_list) ==
    IF company_list = <<>> THEN list
    ELSE AppendAnchors(Append(list, DotA(Head(company_list))), Tail(company_list))

\* a slip of the outer loop: the first section is read by index, as In[17] and
\* In[18] read it
LinkListLoopFirstSection(list, sections) ==
    IF sections = <<>> THEN [err |-> "IndexError", link_list |-> list]
    ELSE [err |-> "", link_list |-> AppendAnchors(list, FindAllLi(sections[1]))]

\* the outer loop: for each_section in company_section
RECURSIVE LinkListLoop(_, _)
LinkListLoop(list, sections) ==
    IF sections = <<>> THEN [err |-> "", link_list |-> list]
    ELSE LinkListLoop(AppendAnchors(list, FindAllLi(Head(sections))), Tail(sections))

----------------------------------------------------------------------------
(* The cells of the locator extraction. *)

\* the variables of the cells after In[25]
crawl_vars == <<iter, company_page, list_of_dicts, log>>
write_vars == <<key_list, key_set, final_key_list, row_n, outfile>>
tweet_vars == <<search_r, statuses, update_n>>

NoResponse == [kind |-> "none"]

\* an entry of the history: what was done, for which element of the loop, and
\* the seconds it paused
Event(op, i, secs) == [op |-> op, i |-> i, secs |-> secs]

InitLocator ==
    /\ cell = "In15"
    /\ err = ""
    /\ page = NoDoc
    /\ company_section = <<>>
    /\ link_list = <<>>
    /\ iter = 0
    /\ company_page = NoResponse
    /\ list_of_dicts = <<>>
    /\ key_list = <<>>
    /\ key_set = {}
    /\ final_key_list = <<>>
    /\ row_n = 0
    /\ outfile = <<>>
    /\ search_r = NoResponse
    /\ statuses = <<>>
    /\ update_n = 0
    /\ log = <<>>

\* In[15]: page = BeautifulSoup(requests.get(<index url>).content)
In15 ==
    /\ cell = "In15"
    /\ \E doc \in Docs : page' = doc
    /\ cell' = "In16"
    /\ UNCHANGED <<err, company_section, link_list, crawl_vars, write_vars, tweet_vars>>

\* In[15] when requests.get raises
In15Raise ==
    /\ cell = "In15"
    /\ err' = "ConnectionError"
    /\ cell' = "halt"
    /\ UNCHANGED <<page, company_section, link_list, crawl_vars, write_vars, tweet_vars>>

\* In[16]: company_section = page.find_all("div", {"id": "mw-pages"})
In16 ==
    /\ cell = "In16"
    /\ company_section' = FindAllMwPages(page)
    /\ cell' = "In25"
    /\ UNCHANGED <<err, page, link_list, crawl_vars, write_vars, tweet_vars>>

\* In[25]: link_list = []; the two nested loops
In25 ==
    /\ cell = "In25"
    /\ LET r == LinkListLoop(<<>>, company_section)
       IN  /\ link_list' = r.link_list
           /\ err' = r.err
           /\ cell' = IF r.err = "" THEN "In38" ELSE "halt"
    /\ UNCHANGED <<page, company_section, crawl_vars, write_vars, tweet_vars>>

NextLocator == In15 \/ In15Raise \/ In16 \/ In25

SpecLocator == InitLocator /\ [][NextLocator]_vars

----------------------------------------------------------------------------
(* The company pages and BeautifulSoup's queries on them.                   *)
(* A page holds at most one table of class "infobox vcard"; a tr holds a th *)
(* or not, the th a div or not, and a td or not.                            *)

Th(div) == [tag |-> "th", div |-> div]
Div(text) == [tag |-> "div", text |-> text]
Td(text) == [tag |-> "td", text |-> text]
Tr(th, td) == [tag |-> "tr", th |-> th, td |-> td]

ReadableRows ==
    {Tr(Th(Div(s_Company_name)), Td(s_X)),
     Tr(Th(Div(s_HQ)), Td(s_X)),
     Tr(Th(Div(s_HQ)), Td(s_Y))}

UnreadableRows ==
    {Tr(None, Td(s_X)), Tr(Th(None), Td(s_X)), Tr(Th(Div(s_HQ)), None)}

Rows == ReadableRows \cup UnreadableRows

Tables == UNION {[1..n -> Rows] : n \in 0..MaxRows}

CompanyDocs == {[info_box |-> None]}
                 \cup {[info_box |-> [tag |-> "table", trs |-> t]] : t \in Tables}

\* what requests.get returns: any status, any document
Responses == {[kind |-> "response", ok |-> o, content |-> d] :
                 o \in BOOLEAN, d \in CompanyDocs}

\* soup.find("table", {"class": "infobox vcard"}): the table, or None
FindInfoBox(soup) == soup.info_box

\* info_box.find_all("tr")
FindAllTr(info_box) == info_box.trs

Raised == [raised |-> TRUE]
Returned(v) == [raised |-> FALSE, value |-> v]

\* one_row.th.div.text: AttributeError on None
ThDivText(one_row) ==
    IF one_row.th = None THEN Raised
    ELSE IF one_row.th.div = None THEN Raised
    ELSE Returned(one_row.th.div.text)

\* one_row.td.text: AttributeError on None
TdText(one_row) ==
    IF one_row.td = None THEN Raised
    ELSE Returned(one_row.td.text)

\* str(text): text is a str already
Str(text) == text

----------------------------------------------------------------------------
(* In[38]: the crawl. *)

\* link_list[0:3]
CrawlLimit == 3

\* time.sleep(1)
SleepSeconds == 1

Slice(list, n) == SubSeq(list, 1, IF Len(list) < n THEN Len(list) ELSE n)

\* d[k] = v on a dict
DictSet(d, k, v) == [x \in DOMAIN d \cup {k} |-> IF x = k THEN v ELSE d[x]]

\* {} followed by new_dict['Company_name'] = title
SeedDict(title) == [x \in {s_Company_name} |-> title]

\* new_dict = {}
EmptyDict == [x \in {} |-> s_empty]

\* a slip of the assignment: a label that is in the dict already keeps its
\* value (new_dict.setdefault(label, value))
RowStepKeepFirst(new_dict, one_row) ==
    IF ThDivText(one_row).raised \/ TdText(one_row).raised THEN new_dict
    ELSE IF ThDivText(one_row).value \in DOMAIN new_dict THEN new_dict
    ELSE DictSet(new_dict, ThDivText(one_row).value, Str(TdText(one_row).value))

\* the body of the row loop: try: print(...); new_dict[label] = str(value)
\* except Exception: continue
RowStep(new_dict, one_row) ==
    IF ThDivText(one_row).raised \/ TdText(one_row).raised THEN new_dict
    ELSE DictSet(new_dict, ThDivText(one_row).value, Str(TdText(one_row).value))

\* a slip of the row loop: the try around the loop, not inside it
RECURSIVE RowLoopTryOutside(_, _)
RowLoopTryOutside(new_dict, table_elements) ==
    IF table_elements = <<>> THEN new_dict
    ELSE IF ThDivText(Head(table_elements)).raised \/ TdText(Head(table_elements)).raised
         THEN new_dict
    ELSE RowLoopTryOutside(RowStep(new_dict, Head(table_elements)), Tail(table_elements))

\* for one_row in table_elements
RECURSIVE RowLoop(_, _)
RowLoop(new_dict, table_elements) ==
    IF table_elements = <<>> THEN new_dict
    ELSE RowLoop(RowStep(new_dict, Head(table_elements)), Tail(table_elements))

\* the locators the crawl is started on: at each position None, an <a> without
\* attributes, an <a> with only a href, or an <a> with href and the title of
\* that position; one more of them than the slice takes
Titles == <<s_A, s_B, s_C, s_D, s_E, s_F>>

CrawlAnchors(i) ==
    {None, AnchorBare, Anchor({<<"href", Titles[i]>>}),
     Anchor({<<"href", Titles[i]>>, <<"title", Titles[i]>>})}

LinkLists ==
    UNION {{l \in [1..n -> UNION {CrawlAnchors(i) : i \in 1..n}] :
               \A i \in 1..n : l[i] \in CrawlAnchors(i)} : n \in 0..(CrawlLimit + 1)}

InitCrawl ==
    /\ cell = "In38"
    /\ err = ""
    /\ page = NoDoc
    /\ company_section = <<>>
    /\ link_list \in LinkLists
    /\ iter = 0
    /\ company_page = NoResponse
    /\ list_of_dicts = <<>>
    /\ key_list = <<>>
    /\ key_set = {}
    /\ final_key_list = <<>>
    /\ row_n = 0
    /\ outfile = <<>>
    /\ search_r = NoResponse
    /\ statuses = <<>>
    /\ update_n = 0
    /\ log = <<>>

index_vars == <<page, company_section, link_list>>

each_link == Slice(link_list, CrawlLimit)[iter]

\* lines 466-468: import time; list_of_dicts = []
In38Start ==
    /\ cell = "In38"
    /\ list_of_dicts' = <<>>
    /\ iter' = 0
    /\ log' = <<>>
    /\ cell' = "In38_for"
    /\ UNCHANGED <<err, index_vars, company_page, write_vars, tweet_vars>>

\* a slip of the loop head: the loop of In[36], which has no time.sleep
In38NoSleep ==
    /\ cell = "In38_for"
    /\ iter < Len(Slice(link_list, CrawlLimit))
    /\ iter' = iter + 1
    /\ company_page' = NoResponse
    /\ cell' = "In38_get"
    /\ UNCHANGED <<log, err, index_vars, list_of_dicts, write_vars, tweet_vars>>

\* lines 470-477: the next each_link, the prints and time.sleep(1).  The
\* response of the iteration before is not read again before line 478 assigns
\* company_page anew: the model drops it here.
In38Sleep ==
    /\ cell = "In38_for"
    /\ iter < Len(Slice(link_list, CrawlLimit))
    /\ iter' = iter + 1
    /\ company_page' = NoResponse
    /\ log' = Append(log, Event("sleep", iter + 1, SleepSeconds))
    /\ cell' = "In38_get"
    /\ UNCHANGED <<err, index_vars, list_of_dicts, write_vars, tweet_vars>>

\* line 470: the loop is exhausted
In38End ==
    /\ cell = "In38_for"
    /\ iter >= Len(Slice(link_list, CrawlLimit))
    /\ cell' = "In39"
    /\ UNCHANGED <<log, err, index_vars, iter, company_page, list_of_dicts, write_vars, tweet_vars>>

\* line 478: each_link['href'] raises on None (TypeError) and on a missing
\* attribute (KeyError); requests.get raises on a network error
In38GetRaise ==
    /\ cell = "In38_get"
    /\ err' = IF each_link = None THEN "TypeError"
              ELSE IF ~HasAttr(each_link, "href") THEN "KeyError"
              ELSE "ConnectionError"
    /\ log' = IF each_link # None /\ HasAttr(each_link, "href")
              THEN Append(log, Event("get", iter, 0)) ELSE log
    /\ cell' = "halt"
    /\ UNCHANGED <<index_vars, iter, company_page, list_of_dicts, write_vars, tweet_vars>>

\* a slip of the request: the page of the next locator is requested along with
\* this one
In38GetAhead ==
    /\ cell = "In38_get"
    /\ each_link # None
    /\ HasAttr(each_link, "href")
    /\ \E r \in Responses : company_page' = r
    /\ log' = log \o <<Event("get", iter, 0), Event("get", iter + 1, 0)>>
    /\ cell' = "In38_extract"
    /\ UNCHANGED <<err, index_vars, iter, list_of_dicts, write_vars, tweet_vars>>

\* line 478: company_page = requests.get("http://wikipedia.org" + each_link['href'])
In38Get ==
    /\ cell = "In38_get"
    /\ each_link # None
    /\ HasAttr(each_link, "href")
    /\ \E r \in Responses : company_page' = r
    /\ log' = Append(log, Event("get", iter, 0))
    /\ cell' = "In38_extract"
    /\ UNCHANGED <<err, index_vars, iter, list_of_dicts, write_vars, tweet_vars>>

\* lines 479-492 up to the first statement that raises, "" when none does
ExtractError(response, link) ==
    IF FindInfoBox(response.content) = None THEN "AttributeError"
    ELSE IF ~HasAttr(link, "title") THEN "KeyError"
    ELSE ""

\* a slip of line 492: the append is outside the loop and runs once, after the
\* last iteration
In38ExtractAppendAfterLoop ==
    /\ cell = "In38_extract"
    /\ ExtractError(company_page, each_link) = ""
    /\ LET table_elements == FindAllTr(FindInfoBox(company_page.content))
           new_dict == RowLoop(SeedDict(Attr(each_link, "title")), table_elements)
           last == iter = Len(Slice(link_list, CrawlLimit))
       IN  /\ list_of_dicts' = IF last THEN Append(list_of_dicts, new_dict)
                               ELSE list_of_dicts
           /\ log' = IF last THEN Append(log, Event("append", iter, 0)) ELSE log
    /\ cell' = "In38_for"
    /\ UNCHANGED <<err, index_vars, iter, company_page, write_vars, tweet_vars>>

\* a slip of line 482: new_dict = {} is before the loop, so every element of
\* the list is the one dict all iterations write to
In38ExtractSharedDict ==
    /\ cell = "In38_extract"
    /\ ExtractError(company_page, each_link) = ""
    /\ LET table_elements == FindAllTr(FindInfoBox(company_page.content))
           shared == IF list_of_dicts = <<>> THEN SeedDict(Attr(each_link, "title"))
                     ELSE DictSet(list_of_dicts[1], s_Company_name, Attr(each_link, "title"))
           new_dict == RowLoop(shared, table_elements)
       IN  list_of_dicts' = [i \in 1..(Len(list_of_dicts) + 1) |-> new_dict]
    /\ log' = Append(log, Event("append", iter, 0))
    /\ cell' = "In38_for"
    /\ UNCHANGED <<err, index_vars, iter, company_page, write_vars, tweet_vars>>

\* lines 479-492: soup, info_box, table_elements, new_dict, the row loop and
\* list_of_dicts.append(new_dict)
In38Extract ==
    /\ cell = "In38_extract"
    /\ ExtractError(company_page, each_link) = ""
    /\ LET table_elements == FindAllTr(FindInfoBox(company_page.content))
           new_dict == RowLoop(SeedDict(Attr(each_link, "title")), table_elements)
       IN  list_of_dicts' = Append(list_of_dicts, new_dict)
    /\ log' = Append(log, Event("append", iter, 0))
    /\ cell' = "In38_for"
    /\ UNCHANGED <<err, index_vars, iter, company_page, write_vars, tweet_vars>>

\* lines 481 and 483: info_box is None, or each_link has no title
In38ExtractRaise ==
    /\ cell = "In38_extract"
    /\ ExtractError(company_page, each_link) # ""
    /\ err' = ExtractError(company_page, each_link)
    /\ cell' = "halt"
    /\ UNCHANGED <<log, index_vars, iter, company_page, list_of_dicts, write_vars, tweet_vars>>

NextCrawl ==
    \/ In38Start \/ In38Sleep \/ In38End
    \/ In38GetRaise \/ In38Get
    \/ In38Extract \/ In38ExtractRaise

SpecCrawl == InitCrawl /\ [][NextCrawl]_vars

----------------------------------------------------------------------------
(* In[39]..In[42]: schema unification and the csv file.                     *)
(* A row of the file is the list of its cells; the header is the first row. *)

\* the orders a set can be iterated in
Orders(S) == {l \in [1..Cardinality(S) -> S] : \A x \in S : \E i \in DOMAIN l : l[i] = x}

\* each_dict.keys(): insertion order.  Line 483 inserts Company_name first;
\* the labels follow in the order of their first row, which is any order
KeyOrders(d) ==
    {<<s_Company_name>> \o l : l \in Orders(DOMAIN d \ {s_Company_name})}

\* a slip of In[39]: only the keys of the first dict are collected
KeyListsFirstDict(dicts) ==
    IF dicts = <<>> THEN {<<>>} ELSE KeyOrders(Head(dicts))

\* the key_list In[39] can build: the keys of each dict, dict after dict
RECURSIVE KeyLists(_)
KeyLists(dicts) ==
    IF dicts = <<>> THEN {<<>>}
    ELSE {ks \o rest : ks \in KeyOrders(Head(dicts)), rest \in KeyLists(Tail(dicts))}

\* set(key_list)
ToSet(list) == {list[i] : i \in DOMAIN list}

\* a slip of the insertion: the key goes to the end
InsertAtEnd(sorted, x) == Append(sorted, x)

\* x put behind the elements of the sorted list that are not greater
Insert(sorted, x) ==
    LET n == Cardinality({i \in DOMAIN sorted : ~StrLess(x, sorted[i])})
    IN  SubSeq(sorted, 1, n) \o <<x>> \o SubSeq(sorted, n + 1, Len(sorted))

\* a slip of In[41]: list(key_set) without sorted()
Unsorted(list) == list

\* sorted(list)
RECURSIVE Sorted(_)
Sorted(list) ==
    IF list = <<>> THEN <<>>
    ELSE Insert(Sorted(SubSeq(list, 1, Len(list) - 1)), list[Len(list)])

\* a slip of DictWriter: the absent keys are left out of the row
RECURSIVE DictToListSkipAbsent(_, _)
DictToListSkipAbsent(rowdict, fieldnames) ==
    IF fieldnames = <<>> THEN <<>>
    ELSE (IF Head(fieldnames) \in DOMAIN rowdict
          THEN <<rowdict[Head(fieldnames)]>> ELSE <<>>)
             \o DictToListSkipAbsent(rowdict, Tail(fieldnames))

\* csv.DictWriter: [rowdict.get(key, restval) for key in fieldnames], restval ''
DictToList(rowdict, fieldnames) ==
    [k \in 1..Len(fieldnames) |->
        IF fieldnames[k] \in DOMAIN rowdict THEN rowdict[fieldnames[k]] ELSE s_empty]

\* a slip of the write loop: the batch is taken from its end
RowToWriteReversed(dicts, n) == dicts[Len(dicts) - n]

\* for row in list_of_dicts: the row taken after n rows
RowToWrite(dicts, n) == dicts[n + 1]

\* the batches the crawl can leave: up to three records, each with
\* Company_name and any of two more keys
Records ==
    {r \in UNION {[D -> {s_A, s_B, s_X, s_Y, s_empty}] :
                     D \in {{s_Company_name} \cup E : E \in SUBSET {s_Co, s_HQ}}} :
        /\ r[s_Company_name] \in {s_A, s_B}
        /\ s_Co \in DOMAIN r => r[s_Co] = s_X
        /\ s_HQ \in DOMAIN r => r[s_HQ] \in {s_Y, s_empty}}

Batches == UNION {[1..n -> Records] : n \in 0..CrawlLimit}

InitWrite ==
    /\ cell = "In39"
    /\ err = ""
    /\ page = NoDoc
    /\ company_section = <<>>
    /\ link_list = <<>>
    /\ iter = 0
    /\ company_page = NoResponse
    /\ list_of_dicts \in Batches
    /\ key_list = <<>>
    /\ key_set = {}
    /\ final_key_list = <<>>
    /\ row_n = 0
    /\ outfile = <<>>
    /\ search_r = NoResponse
    /\ statuses = <<>>
    /\ update_n = 0
    /\ log = <<>>

\* In[39]: key_list = []; the keys of every dict appended
In39 ==
    /\ cell = "In39"
    /\ \E l \in KeyLists(list_of_dicts) : key_list' = l
    /\ cell' = "In40"
    /\ UNCHANGED <<err, index_vars, crawl_vars, tweet_vars, key_set, final_key_list, row_n, outfile>>

\* In[40]: key_set = set(key_list)
In40 ==
    /\ cell = "In40"
    /\ key_set' = ToSet(key_list)
    /\ cell' = "In41"
    /\ UNCHANGED <<err, index_vars, crawl_vars, tweet_vars, key_list, final_key_list, row_n, outfile>>

\* In[41]: final_key_list = sorted(list(key_set))
In41 ==
    /\ cell = "In41"
    /\ \E l \in Orders(key_set) : final_key_list' = Sorted(l)
    /\ cell' = "In42"
    /\ UNCHANGED <<err, index_vars, crawl_vars, tweet_vars, key_list, key_set, row_n, outfile>>

\* a slip of line 535: writer.writeheader() is left out
In42NoHeader ==
    /\ cell = "In42"
    /\ outfile' = <<>>
    /\ row_n' = 0
    /\ cell' = "In42_for"
    /\ UNCHANGED <<err, index_vars, crawl_vars, tweet_vars, key_list, key_set, final_key_list>>

\* lines 530-535: open(outpath, 'w'), DictWriter(fieldnames=final_key_list),
\* writeheader()
In42Header ==
    /\ cell = "In42"
    /\ outfile' = <<final_key_list>>
    /\ row_n' = 0
    /\ cell' = "In42_for"
    /\ UNCHANGED <<err, index_vars, crawl_vars, tweet_vars, key_list, key_set, final_key_list>>

\* lines 536-538: writer.writerow(row); a key outside fieldnames raises
\* ValueError (extrasaction='raise')
In42WriteRow ==
    /\ cell = "In42_for"
    /\ row_n < Len(list_of_dicts)
    /\ LET row == RowToWrite(list_of_dicts, row_n)
       IN  IF DOMAIN row \subseteq ToSet(final_key_list)
           THEN /\ outfile' = Append(outfile, DictToList(row, final_key_list))
                /\ row_n' = row_n + 1
                /\ UNCHANGED <<cell, err>>
           ELSE /\ err' = "ValueError"
                /\ cell' = "halt"
                /\ UNCHANGED <<row_n, outfile>>
    /\ UNCHANGED <<index_vars, crawl_vars, tweet_vars, key_list, key_set, final_key_list>>

\* lines 539-540: outfile.close(); print("done")
In42Close ==
    /\ cell = "In42_for"
    /\ row_n >= Len(list_of_dicts)
    /\ cell' = "done"
    /\ UNCHANGED <<err, index_vars, crawl_vars, tweet_vars, write_vars, tweet_vars>>

NextWrite == In39 \/ In40 \/ In41 \/ In42Header \/ In42WriteRow \/ In42Close

SpecWrite == InitWrite /\ [][NextWrite]_vars

\* one of the key lists In[39] can build
RECURSIVE OneKeyList(_)
OneKeyList(dicts) ==
    IF dicts = <<>> THEN <<>>
    ELSE (CHOOSE ks \in KeyOrders(Head(dicts)) : TRUE) \o OneKeyList(Tail(dicts))

\* In[39]..In[42] as one function of the batch: the file one run of them leaves
Output(dicts) ==
    LET fieldnames == Sorted(CHOOSE l \in Orders(ToSet(OneKeyList(dicts))) : TRUE)
    IN  <<fieldnames>> \o [i \in 1..Len(dicts) |-> DictToList(dicts[i], fieldnames)]

----------------------------------------------------------------------------
(* In[59]: retweet(), lines 820-829. *)

\* time.sleep(5)
PauseSeconds == 5

ScreenNames == {"u1", "u2", "u3"}

\* one element of r.json()['statuses']
Status(name) == [user |-> [screen_name |-> name]]

StatusLists ==
    UNION {[1..n -> {Status(u) : u \in ScreenNames}] : n \in 0..MaxStatuses}

\* what twitter.get can return: any status, with any list of statuses in the
\* body
SearchResponses ==
    {[kind |-> "response", ok |-> o, statuses |-> st] : o \in BOOLEAN, st \in StatusLists}

\* the global name item: no cell of the notebook binds it
ItemBound == FALSE

InitRetweet ==
    /\ cell = "retweet"
    /\ err = ""
    /\ page = NoDoc
    /\ company_section = <<>>
    /\ link_list = <<>>
    /\ iter = 0
    /\ company_page = NoResponse
    /\ list_of_dicts = <<>>
    /\ key_list = <<>>
    /\ key_set = {}
    /\ final_key_list = <<>>
    /\ row_n = 0
    /\ outfile = <<>>
    /\ search_r = NoResponse
    /\ statuses = <<>>
    /\ update_n = 0
    /\ log = <<>>

other_vars == <<index_vars, iter, company_page, list_of_dicts, write_vars>>

\* line 821: r = twitter.get(search, {'q':'DLabAtBerkeley'})
RetweetGet ==
    /\ cell = "retweet"
    /\ \E r \in SearchResponses : search_r' = r
    /\ cell' = "retweet_if"
    /\ UNCHANGED <<err, statuses, update_n, log, other_vars>>

\* line 821: the request raises
RetweetGetRaise ==
    /\ cell = "retweet"
    /\ err' = "ConnectionError"
    /\ cell' = "halt"
    /\ UNCHANGED <<search_r, statuses, update_n, log, other_vars>>

\* line 822: if r.ok is false the function returns
RetweetNotOk ==
    /\ cell = "retweet_if"
    /\ ~search_r.ok
    /\ cell' = "retweet_done"
    /\ UNCHANGED <<err, tweet_vars, log, other_vars>>

\* lines 822-824: statuses = r.json()['statuses'] and the head of the for
RetweetStatuses ==
    /\ cell = "retweet_if"
    /\ search_r.ok
    /\ statuses' = search_r.statuses
    /\ update_n' = 0
    /\ cell' = "retweet_for"
    /\ UNCHANGED <<err, search_r, log, other_vars>>

\* lines 825-829, one iteration: the loop variable is update, the body reads
\* item; then the post and time.sleep(5)
RetweetUpdate ==
    /\ cell = "retweet_for"
    /\ update_n < Len(statuses)
    /\ IF ItemBound
       THEN /\ log' = log \o <<Event("post", update_n + 1, 0),
                               Event("sleep", update_n + 1, PauseSeconds)>>
            /\ update_n' = update_n + 1
            /\ UNCHANGED <<cell, err>>
       ELSE /\ err' = "NameError"
            /\ cell' = "halt"
            /\ UNCHANGED <<log, update_n>>
    /\ UNCHANGED <<search_r, statuses, other_vars>>

\* line 824: the for is exhausted and the function returns
RetweetEnd ==
    /\ cell = "retweet_for"
    /\ update_n >= Len(statuses)
    /\ cell' = "retweet_done"
    /\ UNCHANGED <<err, tweet_vars, log, other_vars>>

NextRetweet ==
    \/ RetweetGet
    \/ RetweetGetRaise
    \/ RetweetNotOk
    \/ RetweetStatuses
    \/ RetweetUpdate
    \/ RetweetEnd

SpecRetweet == InitRetweet /\ [][NextRetweet]_vars

----------------------------------------------------------------------------
(* Partial Record extraction: what a page's info table holds. *)

\* the label (th, its div, the text) and the value (td, the text) are there
Readable(one_row) ==
    /\ one_row.th # None
    /\ one_row.th.div # None
    /\ one_row.td # None

\* an iteration of the crawl has appended its record: company_page is the page
\* of that iteration and the record is the last of the batch
IterationDone == cell = "In38_for" /\ iter >= 1 /\ company_page # NoResponse

LastRecord == list_of_dicts[Len(list_of_dicts)]

PageRows == company_page.content.info_box.trs

\* row j is readable and no readable row after it has the same label
LastOfItsLabel(rows, j) ==
    /\ Readable(rows[j])
    /\ \A k \in (j + 1)..Len(rows) :
          Readable(rows[k]) => rows[k].th.div.text # rows[j].th.div.text

\* C1: per-row fault isolation.  A row whose label or value lookup fails adds
\* no key, and the rows after it still count: the record's keys are
\* Company_name and the labels of the readable rows, each readable row's value
\* is recorded (the last row of a label decides), and the seed value stays when
\* no readable row is labelled Company_name.
PerRowFaultIsolation ==
    IterationDone =>
        /\ Len(list_of_dicts) = iter
        /\ DOMAIN LastRecord = {s_Company_name} \cup
              {PageRows[j].th.div.text :
                  j \in {k \in 1..Len(PageRows) : Readable(PageRows[k])}}
        /\ \A j \in 1..Len(PageRows) :
              LastOfItsLabel(PageRows, j) =>
                  LastRecord[PageRows[j].th.div.text] = PageRows[j].td.text
        /\ (\A j \in 1..Len(PageRows) :
               Readable(PageRows[j]) => PageRows[j].th.div.text # s_Company_name)
              => LastRecord[s_Company_name] = Attr(each_link, "title")

\* a row without th, then a readable row, and the readable row is in the record
RowAfterFailingRowExtracted ==
    /\ IterationDone
    /\ Len(PageRows) = 2
    /\ PageRows[1] = Tr(None, Td(s_X))
    /\ PageRows[2] = Tr(Th(Div(s_HQ)), Td(s_Y))
    /\ LastRecord = DictSet(SeedDict(Attr(each_link, "title")), s_HQ, s_Y)

\* the labels of the readable rows
ReadableLabels(rows) ==
    {rows[j].th.div.text : j \in {k \in 1..Len(rows) : Readable(rows[k])}}

\* the last readable row that has the label
LastRowOf(rows, label) ==
    CHOOSE j \in 1..Len(rows) :
        /\ Readable(rows[j]) /\ rows[j].th.div.text = label
        /\ \A k \in (j + 1)..Len(rows) :
              ~(Readable(rows[k]) /\ rows[k].th.div.text = label)

\* the record rec, harvested from rows, holds every label that two or more
\* readable rows share with the value of the last of them, and has at most one
\* key more than there are distinct readable labels
LastValueKept(rec, rows) ==
    /\ \A j, k \in 1..Len(rows) :
          (/\ j < k
           /\ Readable(rows[j]) /\ Readable(rows[k])
           /\ rows[j].th.div.text = rows[k].th.div.text)
             => /\ rows[j].th.div.text \in DOMAIN rec
                /\ rec[rows[j].th.div.text]
                      = rows[LastRowOf(rows, rows[j].th.div.text)].td.text
    /\ Cardinality(DOMAIN rec) <= 1 + Cardinality(ReadableLabels(rows))

\* C21: duplicate labels.  When two or more readable rows of one info table
\* have the same label, the record holds the label once, with the value of the
\* last such row in table order, and the record never has more keys than one
\* plus the number of distinct readable labels; for the record of the crawl
\* and for the dict In[34] builds from the same rows.
DuplicateLabels ==
    IterationDone =>
        /\ LastValueKept(LastRecord, PageRows)
        /\ LastValueKept(RowLoop(EmptyDict, PageRows), PageRows)

\* two readable rows with the label HQ, and the value of the second recorded
SecondOfTwoValuesKept ==
    /\ IterationDone
    /\ PageRows = <<Tr(Th(Div(s_HQ)), Td(s_X)), Tr(Th(Div(s_HQ)), Td(s_Y))>>
    /\ DOMAIN LastRecord = {s_Company_name, s_HQ}
    /\ LastRecord[s_HQ] = s_Y

\* C2: no-table fallback.  A page without the info table yields the record
\* that holds Company_name alone, the record is appended to the batch and the
\* crawl goes on to the next locator.
NoTableFallback ==
    (/\ company_page # NoResponse
     /\ company_page.ok
     /\ cell # "In38_extract"
     /\ FindInfoBox(company_page.content) = None
     /\ HasAttr(each_link, "title"))
        => /\ err = ""
           /\ cell = "In38_for"
           /\ Len(list_of_dicts) = iter
           /\ LastRecord = SeedDict(Attr(each_link, "title"))

\* C10: every record of the batch has the key Company_name, and its value is
\* the title of the locator the record was harvested from, whatever the rows
\* of the info table.
SeedField ==
    \A i \in 1..Len(list_of_dicts) :
        /\ s_Company_name \in DOMAIN list_of_dicts[i]
        /\ HasAttr(Slice(link_list, CrawlLimit)[i], "title")
        /\ list_of_dicts[i][s_Company_name]
              = Attr(Slice(link_list, CrawlLimit)[i], "title")

----------------------------------------------------------------------------
(* Batch accumulation: the crawl as a whole. *)

Crawled == Slice(link_list, CrawlLimit)

IsAppend(e) == e.op = "append"

IsGet(e) == e.op = "get"

\* the entries of the history before position p that satisfy Test
Before(p, Test(_)) == SelectSeq(SubSeq(log, 1, p - 1), Test)

\* the seconds paused between the entries p and q of the history
RECURSIVE SecondsBetween(_, _)
SecondsBetween(p, q) ==
    IF p + 1 >= q THEN 0 ELSE log[p + 1].secs + SecondsBetween(p + 1, q)

\* C11: when the crawl runs to completion the batch holds exactly one record
\* per locator of the crawled sequence, appended in crawl order: the i-th
\* append is the one of the i-th locator and the i-th record carries no other
\* locator's title.
BatchAccumulation ==
    cell = "In39" =>
        /\ Len(list_of_dicts) = Len(Crawled)
        /\ SelectSeq(log, IsAppend) = [i \in 1..Len(Crawled) |-> Event("append", i, 0)]
        /\ \A i, j \in 1..Len(Crawled) :
              i # j => list_of_dicts[i][s_Company_name] # Attr(Crawled[j], "title")

\* four locators, the crawl of the first three complete, the seed values kept
ThreeOfFourCrawled ==
    /\ cell = "In39"
    /\ Len(link_list) = 4
    /\ Len(list_of_dicts) = 3
    /\ \A i \in 1..3 : list_of_dicts[i][s_Company_name] = Titles[i]
    /\ DOMAIN list_of_dicts[2] # DOMAIN list_of_dicts[3]

\* C12: every fetch of a page is immediately preceded by one wait of the fixed
\* delay, for the same locator, and between two consecutive fetches at least
\* one full delay is waited.
RateLimiting ==
    \A p \in DOMAIN log :
        IsGet(log[p]) =>
            /\ p > 1
            /\ log[p - 1] = Event("sleep", log[p].i, SleepSeconds)
            /\ \A q \in 1..(p - 1) :
                  IsGet(log[q]) => SecondsBetween(q, p) >= SleepSeconds

\* the third page requested
ThirdFetchIssued ==
    /\ cell = "In38_extract"
    /\ iter = 3
    /\ Len(SelectSeq(log, IsGet)) = 3

\* C13: for every locator whose fetch fails, by a network error or by a
\* non-success status, no record for that locator is appended to the batch.
FailedFetchNotHarvested ==
    /\ err = "ConnectionError" => Len(list_of_dicts) < iter
    /\ (company_page # NoResponse /\ ~company_page.ok /\ cell # "In38_extract")
          => Len(list_of_dicts) < iter

\* every locator the crawl takes has a href and a title
LocatorsUsable ==
    \A i \in 1..Len(Crawled) :
        Crawled[i] # None /\ HasAttr(Crawled[i], "href") /\ HasAttr(Crawled[i], "title")

\* C14: the crawl ends in one of two ways only, with every locator processed
\* and its record appended or with an unhandled fetch failure (a network error,
\* or a stop on a response of non-success status); nothing else, such as a
\* page with unexpected content, stops it before the last locator.
CrawlOutcome ==
    LocatorsUsable =>
        /\ cell = "In39" => Len(list_of_dicts) = Len(Crawled)
        /\ cell = "halt" =>
              \/ err = "ConnectionError"
              \/ company_page # NoResponse /\ ~company_page.ok

\* C15: one fetch at a time, and the fetch for a locator is issued only after
\* the records of all locators before it have been appended: before the fetch
\* of locator i the history holds the fetches and the appends of 1..i-1, each
\* once and in order, and nothing of a later locator.
StrictSequencing ==
    \A p \in DOMAIN log :
        IsGet(log[p]) =>
            /\ Before(p, IsGet) = [k \in 1..(log[p].i - 1) |-> Event("get", k, 0)]
            /\ Before(p, IsAppend) = [k \in 1..(log[p].i - 1) |-> Event("append", k, 0)]

\* the second and the third fetch, each after the append before it
FetchesAfterAppends ==
    /\ cell = "In38_extract"
    /\ iter = 3
    /\ Len(list_of_dicts) = 2
    /\ log[Len(log)] = Event("get", 3, 0)
    /\ log[Len(log) - 2] = Event("append", 2, 0)

\* C16: within one crawl every step leaves the records of the batch as they
\* are, in content and position: the batch changes only by one record appended
\* at its end.
AppendOnlyBatch ==
    [][\/ list_of_dicts' = list_of_dicts
       \/ /\ Len(list_of_dicts') = Len(list_of_dicts) + 1
          /\ SubSeq(list_of_dicts', 1, Len(list_of_dicts)) = list_of_dicts]_vars

\* a batch of three records that differ from each other
ThreeRecordsAppended ==
    /\ Len(list_of_dicts) = 3
    /\ list_of_dicts[1] # list_of_dicts[2]
    /\ list_of_dicts[2] # list_of_dicts[3]
    /\ DOMAIN list_of_dicts[1] # DOMAIN list_of_dicts[2]

----------------------------------------------------------------------------
(* Schema unification and tabular write. *)

BatchKeys == UNION {DOMAIN list_of_dicts[i] : i \in 1..Len(list_of_dicts)}

SchemaBuilt == cell \in {"In42", "In42_for", "done"}

\* C3: the Unified Schema holds exactly the field names that are a key of at
\* least one record of the batch, each once, in strictly increasing
\* lexicographic order.
SchemaUnification ==
    SchemaBuilt =>
        /\ ToSet(final_key_list) = BatchKeys
        /\ \A i, j \in 1..Len(final_key_list) :
              i < j => StrLess(final_key_list[i], final_key_list[j])

\* two records with different keys, a key that is a prefix of another
SchemaOfMixedBatch ==
    /\ SchemaBuilt
    /\ Len(list_of_dicts) = 2
    /\ DOMAIN list_of_dicts[1] = {s_Company_name, s_HQ}
    /\ DOMAIN list_of_dicts[2] = {s_Company_name, s_Co}
    /\ final_key_list = <<s_Co, s_Company_name, s_HQ>>

\* C4: every row written for a record has len(Unified Schema) cells; the cell
\* of column k is the record's value for key k when the record has the key and
\* the empty string otherwise.
RowAlignment ==
    (cell \in {"In42_for", "done"}) =>
        \A i \in 1..(Len(outfile) - 1) :
            /\ i <= Len(list_of_dicts)
            /\ Len(outfile[i + 1]) = Len(final_key_list)
            /\ \A k \in 1..Len(final_key_list) :
                  \/ /\ final_key_list[k] \in DOMAIN list_of_dicts[i]
                     /\ outfile[i + 1][k] = list_of_dicts[i][final_key_list[k]]
                  \/ /\ final_key_list[k] \notin DOMAIN list_of_dicts[i]
                     /\ outfile[i + 1][k] = s_empty

\* a row with an empty cell for an absent key in front of two filled cells
RowWithAbsentKeyWritten ==
    /\ cell = "In42_for"
    /\ final_key_list = <<s_Co, s_Company_name, s_HQ>>
    /\ Len(outfile) = 3
    /\ s_Co \notin DOMAIN list_of_dicts[2]
    /\ outfile[3] = <<s_empty, s_B, s_Y>>

\* C5: after the write, the number of data rows is the number of records of
\* the batch, and the i-th data row is the row of the i-th record.
RowCountAndOrder ==
    cell = "done" =>
        /\ Len(outfile) = 1 + Len(list_of_dicts)
        /\ \A i \in 1..Len(list_of_dicts) :
              outfile[i + 1] = DictToList(list_of_dicts[i], outfile[1])

\* three records that give three different rows
ThreeDistinctRowsWritten ==
    /\ cell = "done"
    /\ Len(list_of_dicts) = 3
    /\ Len(outfile) = 4
    /\ outfile[2] # outfile[3] /\ outfile[2] # outfile[4] /\ outfile[3] # outfile[4]
    /\ DOMAIN list_of_dicts[1] # DOMAIN list_of_dicts[3]

\* C17: the output holds exactly one header row, the Unified Schema in sorted
\* order, and it is there before any data row: nothing is written before it,
\* every later row is the row of a record, and an empty batch leaves the
\* header row alone.
OutputLayoutOrder ==
    /\ cell \in {"In39", "In40", "In41", "In42"} => outfile = <<>>
    /\ cell \in {"In42_for", "done"} =>
          /\ Len(outfile) = 1 + row_n
          /\ outfile[1] = final_key_list
          /\ \A i, j \in 1..Len(final_key_list) :
                i < j => StrLess(final_key_list[i], final_key_list[j])
          /\ \A i \in 2..Len(outfile) :
                outfile[i] = DictToList(list_of_dicts[i - 1], final_key_list)
    /\ (cell = "done" /\ list_of_dicts = <<>>) => outfile = <<final_key_list>>

\* a header of three names followed by the rows of two records
HeaderThenTwoRows ==
    /\ cell = "done"
    /\ Len(outfile) = 3
    /\ outfile[1] = <<s_Co, s_Company_name, s_HQ>>
    /\ outfile[2] = <<s_X, s_A, s_empty>>
    /\ outfile[3] = <<s_empty, s_B, s_Y>>

\* C19: when the write starts every key of every record of the batch is a
\* name of the Unified Schema, so no row is rejected for a key outside the
\* field names (no ValueError) and every record is written.
SchemaCoversEveryRecord ==
    /\ SchemaBuilt =>
          \A i \in 1..Len(list_of_dicts) :
              DOMAIN list_of_dicts[i] \subseteq ToSet(final_key_list)
    /\ err # "ValueError"
    /\ cell = "In42_for" => row_n <= Len(list_of_dicts)

\* a key that only the last of three records has, and the record written
LateKeyWritten ==
    /\ cell = "done"
    /\ Len(list_of_dicts) = 3
    /\ row_n = 3
    /\ s_HQ \notin DOMAIN list_of_dicts[1]
    /\ s_HQ \notin DOMAIN list_of_dicts[2]
    /\ s_HQ \in DOMAIN list_of_dicts[3]
    /\ outfile[4][Len(final_key_list)] = s_Y

\* the batch with its records in the order p (a permutation of the positions)
Reordered(dicts, p) == [i \in 1..Len(dicts) |-> dicts[p[i]]]

BatchOrders == Orders(1..Len(list_of_dicts))

\* C6 as stated: two batches that hold the same records, in any order of the
\* records, give the same output: the same header and the same sequence of
\* data rows.
DeterminismAnyOrder ==
    cell = "done" =>
        \A p \in BatchOrders : Output(Reordered(list_of_dicts, p)) = outfile

\* C6, amended: the header is the same for any order of the records, and the
\* data rows are the rows of the records in the batch's own order; the output
\* is identical when the records are in the same order.
DeterminismUpToRowOrder ==
    cell = "done" =>
        /\ Output(list_of_dicts) = outfile
        /\ \A p \in BatchOrders :
              LET other == Output(Reordered(list_of_dicts, p))
              IN  /\ other[1] = outfile[1]
                  /\ Len(other) = Len(outfile)
                  /\ \A i \in 1..Len(list_of_dicts) : other[i + 1] = outfile[p[i] + 1]

\* a written batch of two different records whose keys were listed in
\* different orders
TwoOrdersCompared ==
    /\ cell = "done"
    /\ Len(list_of_dicts) = 2
    /\ outfile[2] # outfile[3]
    /\ Len(outfile[1]) = 3
    /\ key_list = <<s_Company_name, s_HQ, s_Co, s_Company_name, s_Co, s_HQ>>

----------------------------------------------------------------------------
(* Locator extraction: what the document holds, read off its tags. *)

\* the anchors (or None) of the li inside a container, document order; with
\* groupsOnly, only of the li inside a group of a container
RECURSIVE EntryAnchors(_, _, _, _, _)
EntryAnchors(doc, p, inSection, inGroup, groupsOnly) ==
    IF p > Len(doc) THEN <<>>
    ELSE IF doc[p].tag = "div_mw_pages"
         THEN EntryAnchors(doc, p + 1, TRUE, FALSE, groupsOnly)
    ELSE IF doc[p].tag = "div_group"
         THEN EntryAnchors(doc, p + 1, inSection, inSection, groupsOnly)
    ELSE (IF inSection /\ (inGroup \/ ~groupsOnly) THEN <<doc[p].a>> ELSE <<>>)
             \o EntryAnchors(doc, p + 1, inSection, inGroup, groupsOnly)

GroupEntries(doc) == EntryAnchors(doc, 1, FALSE, FALSE, TRUE)

ContainerEntries(doc) == EntryAnchors(doc, 1, FALSE, FALSE, FALSE)

\* a group of a container that holds no li
HasEmptyGroup(doc) ==
    \E p \in 1..Len(doc) :
        /\ doc[p].tag = "div_group"
        /\ \E q \in 1..(p - 1) : doc[q].tag = "div_mw_pages"
        /\ p = Len(doc) \/ doc[p + 1].tag # "li"

LocatorsExtracted == cell = "In38" /\ page # NoDoc

\* C7: Locator extraction returns exactly the N group entries of the index
\* document, one locator per entry and none for any other list item, ordered by
\* group and then by position in the group.
LocatorCompleteness ==
    LocatorsExtracted => link_list = GroupEntries(page)

\* C8: when div#mw-pages matches nothing, Locator extraction ends without
\* raising and link_list is the empty sequence.
EmptyIndexSafety ==
    (cell \in {"In38", "halt"} /\ page # NoDoc /\ FindAllMwPages(page) = <<>>)
        => (err = "" /\ cell = "In38" /\ link_list = <<>>)

\* an index without the container, but with list items elsewhere on the page
EmptyIndexExtracted ==
    /\ LocatorsExtracted
    /\ company_section = <<>>
    /\ \E p \in 1..Len(page) : page[p].tag = "li" /\ page[p].a = AnchorA
    /\ link_list = <<>>

\* C9: a group with zero entries does not raise and contributes no locator:
\* link_list holds one element per li of the containers and nothing else, in
\* document order, so the entries of the other groups are all there, in order.
EmptyGroupSafety ==
    (cell \in {"In38", "halt"} /\ page # NoDoc /\ HasEmptyGroup(page))
        => /\ err = "" /\ cell = "In38"
           /\ link_list = ContainerEntries(page)
           /\ Len(GroupEntries(page)) = Len(ContainerEntries(page))
                 => link_list = GroupEntries(page)

\* an empty group followed by a group that holds two entries
EmptyGroupExtracted ==
    /\ LocatorsExtracted
    /\ \E p \in 1..(Len(page) - 1) :
           page[p].tag = "div_group" /\ page[p + 1].tag = "div_group"
    /\ link_list = <<AnchorA, AnchorB>>
    /\ GroupEntries(page) = <<AnchorA, AnchorB>>

\* C20: every element that Locator extraction appends to link_list is an
\* anchor with a href and a title; a li without an anchor puts no None into
\* link_list.
UsableLocators ==
    \A i \in 1..Len(link_list) :
        /\ link_list[i] # None
        /\ HasAttr(link_list[i], "href")
        /\ HasAttr(link_list[i], "title")

----------------------------------------------------------------------------
(* retweet(). *)

\* the posts and pauses of n statuses: post 1, pause, post 2, pause, ...
PostsAndPauses(n) ==
    [p \in 1..(2 * n) |->
        IF p % 2 = 1 THEN Event("post", (p + 1) \div 2, 0)
        ELSE Event("sleep", p \div 2, PauseSeconds)]

\* C18: when the search response is ok and retweet() has ended, it has issued
\* exactly one post per status of the result, in result order, each followed
\* by one pause of five seconds; when the response is not ok it issues no post.
RetweetPostsPerStatus ==
    /\ (cell \in {"retweet_done", "halt"} /\ search_r # NoResponse /\ search_r.ok)
          => log = PostsAndPauses(Len(search_r.statuses))
    /\ (search_r # NoResponse /\ ~search_r.ok) => log = <<>>

====
